---- MODULE Spec2Model ----
(***************************************************************************)
(* Model of the BTC high-frequency trading bot (btc/btc_hf_bot.py):        *)
(* the PositionTracker ledger with its DynamoDB copy, execute_trade with   *)
(* the broker's order book, and the scan_and_trade cycle.                  *)
(*                                                                         *)
(* Units.  Money is in cents.  avg_price_cents is a float in the source    *)
(* and an exact reduced fraction [n, d] here.  Probabilities are in        *)
(* thousandths, edges in hundredths of a percentage point, so that         *)
(* net_edge = gross_edge - fee_pct is an exact integer.                    *)
(* remaining_exposure is kept in half cents (bankroll * 1/2 is exact).     *)
(***************************************************************************)
EXTENDS Integers, Sequences, FiniteSets, TLC

VARIABLES
    dry_run,             \* HFTradingBot.dry_run / PositionTracker.dry_run
    pc,                  \* where the process is
    now,                 \* datetime.utcnow(), as the index of the current hour
    positions,           \* PositionTracker.positions: ticker -> Position
    tables,              \* DynamoDB: table name -> (ticker -> item with pk POS#ticker)
    simulated_balance,   \* HFTradingBot._simulated_balance, cents
    orders,              \* the broker's orders, in order of submission
    cyc,                 \* locals of the running scan_and_trade call
    cur,                 \* locals of the execute_trade call waiting for a fill
    fills,               \* per held ticker: quantity and cost of the fills recorded
    ev,                  \* what the last step did: order outcome, ledger call
    running,             \* HFTradingBot.running
    signalled,           \* a shutdown signal was delivered to this process
    call                 \* the pure function applied last, with arguments and result

vars == <<dry_run, pc, now, positions, tables, simulated_balance, orders, cyc,
          cur, fills, ev, running, signalled, call>>

-----------------------------------------------------------------------------
(* Bounds of the model *)

MaxHour == 2
MaxOrders == 2
MaxHeld == 3

(* Program constants *)

MIN_EDGE_PCT == 10
EXIT_EDGE_PCT == 1
KALSHI_FEE_RATE == [n |-> 7, d |-> 100]
KELLY_FRACTION == [n |-> 1, d |-> 4]
MAX_CONTRACTS == 10
MAX_EXPOSURE_FRACTION == [n |-> 1, d |-> 2]
EDGE_INCREASE_THRESHOLD == 5
MAX_SLIPPAGE_CENTS == 5
TRADING_CUTOFF_MINUTES == 15
ORDER_TIMEOUT_SEC == 30
DRY_RUN_STARTING_BALANCE == 200

(* Inputs from the collaborators *)

Tickers == {"T1", "T2", "U1", "U2"}
\* get_markets sorts by floor_strike
Markets == << [ticker |-> "T1", floor_strike |-> 90500],
              [ticker |-> "T2", floor_strike |-> 91000] >>
\* the markets of the events of the later hours: the event ticker carries the
\* hour, so their tickers are not those of the first hour
LaterMarkets == << [ticker |-> "U1", floor_strike |-> 90500],
                   [ticker |-> "U2", floor_strike |-> 91000] >>
\* get_markets(get_next_hour_event_ticker()) at the hour h
MarketsAt(h) == IF h = 1 THEN Markets ELSE LaterMarkets
\* Coinbase spot: 0 stands for a failed fetch, 9000 is outside the sane range
FeedPrices == {0, 9000, 90000}

\* market.get('floor_strike') of the market with the ticker
StrikeOf(ticker) ==
    LET all == Markets \o LaterMarkets
    IN all[CHOOSE i \in 1..Len(all) : all[i].ticker = ticker].floor_strike
\* the VOL/LATEST item; samples 0 stands for a missing item or a failed read
VolFeed == { [std |-> 0, samples |-> 0], [std |-> 8, samples |-> 5],
             [std |-> 8, samples |-> 20] }
MinutesSet == {10, 40}
AskSet == {0, 80}
BidSet == {0, 70, 78}
ProbSet == {800, 930}
\* Kalshi balance in cents; -1 stands for a failed fetch
LiveBalances == {-1, 0, 2000}
OrderStatuses == {"filled", "resting", "pending", "canceled"}

-----------------------------------------------------------------------------
(* Arithmetic helpers *)

RECURSIVE GCD(_, _)
GCD(a, b) == IF b = 0 THEN a ELSE GCD(b, a % b)

Rat(n, d) == LET g == GCD(n, d) IN [n |-> n \div g, d |-> d \div g]

\* Python int(): truncation toward zero
IntTrunc(n, d) == IF n >= 0 THEN n \div d ELSE -((-n) \div d)

Min(a, b) == IF a < b THEN a ELSE b

RECURSIVE SumOver(_, _)
SumOver(f, S) == IF S = {} THEN 0
                 ELSE LET x == CHOOSE y \in S : TRUE
                      IN f[x] + SumOver(f, S \ {x})

EmptyMap == [t \in {} |-> 0]

-----------------------------------------------------------------------------
(* DynamoDB tables *)

POSITION_TABLE == "BTCHFPositions"
POSITION_TABLE_DRYRUN == "BTCHFPositions-DryRun"
TRADE_LOG_TABLE == "BTCTradeLog"
TableNames == {POSITION_TABLE, POSITION_TABLE_DRYRUN}

\* a tracker that uses the live table whatever its mode
table_name_shared(dr) == POSITION_TABLE

\* PositionTracker._table_name
table_name(dr) == IF dr THEN POSITION_TABLE_DRYRUN ELSE POSITION_TABLE

\* the table PerformanceTracker._init_dynamodb picks for the trade records
\* (items with pk 'HF_TRADE', which the tracker's scan filter leaves out)
trade_table_name(dr) == IF dr THEN "BTCHFPositions-DryRun" ELSE TRADE_LOG_TABLE

\* the POS# items of the table this tracker's _get_table() returns
store == tables[table_name(dry_run)]

\* put_item / delete_item through _get_table()
SetStore(items) == tables' = [tables EXCEPT ![table_name(dry_run)] = items]

-----------------------------------------------------------------------------
(* Position *)

\* Position.total_cost, in cents
total_cost(p) == (p.contracts * p.avg_price_cents.n) \div p.avg_price_cents.d

\* Position.is_expired: fromisoformat of a timezone-aware string gives an
\* aware datetime, and comparing it with the naive utcnow() raises TypeError,
\* which the except clause turns into True; so does an unparseable string.
is_expired(p, utcnow) ==
    IF p.expiry_time.tz = "naive" THEN utcnow >= p.expiry_time.t ELSE TRUE

\* what _save_position_to_dynamodb writes for a position
ToItem(p) == [contracts |-> p.contracts, avg_price_cents |-> p.avg_price_cents,
              entry_edge |-> p.entry_edge, last_edge |-> p.last_edge,
              btc_price_at_entry |-> p.btc_price_at_entry,
              strike_price |-> p.strike_price, opened_at |-> p.opened_at,
              has_expiry |-> TRUE, expiry_time |-> p.expiry_time]

\* what _load_positions_from_dynamodb builds from an item; a missing
\* expiry_time defaults to '2000-01-01T00:00:00'
FromItem(i) == [contracts |-> i.contracts, avg_price_cents |-> i.avg_price_cents,
                entry_edge |-> i.entry_edge, last_edge |-> i.last_edge,
                btc_price_at_entry |-> i.btc_price_at_entry,
                strike_price |-> i.strike_price, opened_at |-> i.opened_at,
                expiry_time |-> IF i.has_expiry THEN i.expiry_time
                                ELSE [t |-> 0, tz |-> "naive"]]

-----------------------------------------------------------------------------
(* PositionTracker *)

\* a tracker that never reports a held ticker
has_position_never(ticker) == FALSE

has_position(ticker) == ticker \in DOMAIN positions

\* an add rule that lets every add through
can_add_to_position_always(ps, ticker, current_edge) == TRUE

can_add_to_position(ps, ticker, current_edge) ==
    IF ticker \notin DOMAIN ps THEN TRUE
    ELSE current_edge - ps[ticker].last_edge >= EDGE_INCREASE_THRESHOLD * 100

\* the in-memory part of open_position; opened_at is datetime.utcnow()
open_position(ps, ticker, contracts, price_cents, edge, btc_price, strike_price, expiry) ==
    [t \in DOMAIN ps \cup {ticker} |->
        IF t = ticker
        THEN [contracts |-> contracts, avg_price_cents |-> Rat(price_cents, 1),
              entry_edge |-> edge, last_edge |-> edge,
              btc_price_at_entry |-> btc_price, strike_price |-> strike_price,
              opened_at |-> now, expiry_time |-> expiry]
        ELSE ps[t]]

\* an add that takes the position for a new one: the entry edge and the
\* opening time are those of the add
add_to_position_restamped(ps, ticker, contracts, price_cents, edge) ==
    LET pos == ps[ticker]
        total_contracts == pos.contracts + contracts
        cost_n == pos.contracts * pos.avg_price_cents.n
                  + contracts * price_cents * pos.avg_price_cents.d
        new_avg == Rat(cost_n, pos.avg_price_cents.d * total_contracts)
    IN [ps EXCEPT ![ticker] = [pos EXCEPT !.contracts = total_contracts,
                                          !.avg_price_cents = new_avg,
                                          !.entry_edge = edge,
                                          !.last_edge = edge,
                                          !.opened_at = now]]

\* an add that averages the two prices without weighting by contracts
add_to_position_unweighted(ps, ticker, contracts, price_cents, edge) ==
    LET pos == ps[ticker]
        new_avg == Rat(pos.avg_price_cents.n + price_cents * pos.avg_price_cents.d,
                       2 * pos.avg_price_cents.d)
    IN [ps EXCEPT ![ticker] = [pos EXCEPT !.contracts = pos.contracts + contracts,
                                          !.avg_price_cents = new_avg,
                                          !.last_edge = edge]]

\* the in-memory part of add_to_position
add_to_position(ps, ticker, contracts, price_cents, edge) ==
    LET pos == ps[ticker]
        total_contracts == pos.contracts + contracts
        \* pos.contracts * pos.avg_price_cents + contracts * price_cents, over avg.d
        cost_n == pos.contracts * pos.avg_price_cents.n
                  + contracts * price_cents * pos.avg_price_cents.d
        new_avg == Rat(cost_n, pos.avg_price_cents.d * total_contracts)
    IN [ps EXCEPT ![ticker] = [pos EXCEPT !.contracts = total_contracts,
                                          !.avg_price_cents = new_avg,
                                          !.last_edge = edge]]

\* a refresh that overwrites the entry edge as well
update_edge_entry(ps, ticker, edge) ==
    IF ticker \in DOMAIN ps
    THEN [ps EXCEPT ![ticker].last_edge = edge, ![ticker].entry_edge = edge]
    ELSE ps

\* a tracker that leaves last_edge as it is
update_edge_never(ps, ticker, edge) == ps

update_edge(ps, ticker, edge) ==
    IF ticker \in DOMAIN ps THEN [ps EXCEPT ![ticker].last_edge = edge] ELSE ps

\* the in-memory part of close_position
close_position(ps, ticker) == [t \in DOMAIN ps \ {ticker} |-> ps[t]]

\* _save_position_to_dynamodb: put_item, or nothing when it raises
save_position(st, ticker, pos, put_ok) ==
    IF put_ok
    THEN [t \in DOMAIN st \cup {ticker} |-> IF t = ticker THEN ToItem(pos) ELSE st[t]]
    ELSE st

\* _delete_position_from_dynamodb: delete_item, or nothing when it raises
delete_position(st, ticker, del_ok) ==
    IF del_ok THEN [t \in DOMAIN st \ {ticker} |-> st[t]] ELSE st

-----------------------------------------------------------------------------
(* Edge and sizing *)

\* the fee per contract, 0.07 * price * (1 - price/100), taken for the
\* percentage of cost
calculate_kalshi_fee_pct_per_contract(price_cents) ==
    IF price_cents <= 0 \/ price_cents >= 100 THEN 0
    ELSE (KALSHI_FEE_RATE.n * price_cents * (100 - price_cents) * 100)
             \div (KALSHI_FEE_RATE.d * 100)

\* calculate_kalshi_fee_pct, hundredths of a percentage point
calculate_kalshi_fee_pct(price_cents) ==
    IF price_cents <= 0 \/ price_cents >= 100 THEN 0
    ELSE (KALSHI_FEE_RATE.n * (100 - price_cents) * 100 * 100)
             \div (KALSHI_FEE_RATE.d * 100)

\* calculate_net_edge, edges in hundredths of a percentage point
calculate_net_edge(gross_edge_pct, price_cents) ==
    gross_edge_pct - calculate_kalshi_fee_pct(price_cents)

\* math.ceil(n / d) for d > 0
Ceil(n, d) == IF n >= 0 THEN (n + d - 1) \div d ELSE -((-n) \div d)

\* a fee rounded down to the cent
calculate_fee_floor(contracts, price_cents) ==
    (KALSHI_FEE_RATE.n * contracts * price_cents * (100 - price_cents))
        \div (KALSHI_FEE_RATE.d * 100)

\* calculate_fee (btc_lambda_function.py) and calculate_kalshi_fee
\* (dashboard_generator.py), which are the same function: the fee in cents,
\* ceil(KALSHI_FEE_RATE * contracts * price_cents * (1 - price_cents/100));
\* the functions return it divided by 100
calculate_fee(contracts, price_cents) ==
    Ceil(KALSHI_FEE_RATE.n * contracts * price_cents * (100 - price_cents),
         KALSHI_FEE_RATE.d * 100)

\* std_devs_above > k, resp. < -k, for k > 0 (vol_std_pct in hundredths of a
\* percent, both positive):
\*   std_devs_above = (strike - btc)/btc*100 / (vol/100 * sqrt(minutes/15))
\* so |std_devs_above| > k  iff  15 * r^2 > k^2 * minutes
\* with r = 10000*|strike - btc| / (btc * vol)
StdDevsBeyond(btc_price, strike_price, vol_std_pct, minutes, k, above) ==
    LET diff == strike_price - btc_price
        mag == IF diff >= 0 THEN diff ELSE -diff
        r == Rat(10000 * mag, btc_price * vol_std_pct)
    IN /\ IF above THEN diff > 0 ELSE diff < 0
       /\ 15 * r.n * r.n > k * k * minutes * r.d * r.d

\* norm_cdf without the two early returns
calculate_model_probability_unsaturated(btc_price, strike_price, vol_std_pct, minutes, poly) ==
    IF vol_std_pct <= 0 \/ minutes <= 0 THEN -1 ELSE poly

\* calculate_model_probability, in thousandths; -1 stands for None.  poly is
\* the value of the polynomial approximation, which is only used for
\* -6 <= std_devs_above <= 6.
calculate_model_probability(btc_price, strike_price, vol_std_pct, minutes, poly) ==
    IF vol_std_pct <= 0 \/ minutes <= 0 THEN -1
    ELSE IF StdDevsBeyond(btc_price, strike_price, vol_std_pct, minutes, 6, FALSE)
         THEN 0
    ELSE IF StdDevsBeyond(btc_price, strike_price, vol_std_pct, minutes, 6, TRUE)
         THEN 1000
    ELSE poly

\* norm_cdf's p = d * t * (0.3193815 + t * (...)) at |z| = 0.0, 0.1, ..., 6.0,
\* in millionths
NormTail ==
    << 500000, 460172, 420740, 382089, 344578, 308537, 274253, 241964, 211855,
       184060, 158655, 135666, 115070, 96801, 80757, 66807, 54799, 44565, 35930,
       28716, 22750, 17864, 13903, 10724, 8198, 6210, 4661, 3467, 2555, 1866,
       1350, 968, 687, 483, 337, 233, 159, 108, 72, 48, 32, 21, 13, 9, 5, 3, 2,
       1, 1, 0, 0, 0, 0, 0, 0, 0, 0, 0, 0, 0, 0 >>

\* |std_devs_above| in tenths, rounded down, for |std_devs_above| <= 6:
\* |z| >= k/10  iff  1500 * r^2 >= k^2 * minutes, r as in StdDevsBeyond
StdDevsTenths(btc_price, strike_price, vol_std_pct, minutes) ==
    LET diff == strike_price - btc_price
        mag == IF diff >= 0 THEN diff ELSE -diff
        r == Rat(10000 * mag, btc_price * vol_std_pct)
        AtLeast(k) == 1500 * r.n * r.n >= k * k * minutes * r.d * r.d
    IN CHOOSE k \in 0..60 : AtLeast(k) /\ (k = 60 \/ ~AtLeast(k + 1))

\* a norm_cdf that returns p whatever the sign of z
norm_cdf_tail(positive, tenths) == NormTail[tenths + 1] \div 1000

\* norm_cdf for -6 <= z <= 6, in thousandths (rounded down):
\* `return 1 - p if z > 0 else p`
norm_cdf(positive, tenths) ==
    IF positive THEN (1000000 - NormTail[tenths + 1]) \div 1000
    ELSE NormTail[tenths + 1] \div 1000

\* calculate_model_probability with norm_cdf evaluated: z is taken at the
\* tenth below |std_devs_above| unless it is beyond 6
model_probability(btc_price, strike_price, vol_std_pct, minutes) ==
    IF vol_std_pct <= 0 \/ minutes <= 0 THEN -1
    ELSE calculate_model_probability(btc_price, strike_price, vol_std_pct, minutes,
             IF \/ StdDevsBeyond(btc_price, strike_price, vol_std_pct, minutes, 6, TRUE)
                \/ StdDevsBeyond(btc_price, strike_price, vol_std_pct, minutes, 6, FALSE)
             THEN 0
             ELSE norm_cdf(strike_price > btc_price,
                           StdDevsTenths(btc_price, strike_price, vol_std_pct, minutes)))

\* gross_edge - fee_pct for a probability in thousandths
net_edge_of(model_prob, no_ask) ==
    (10 * model_prob - 100 * no_ask) - calculate_kalshi_fee_pct(no_ask)

\* a sizer without the MAX_CONTRACTS cap
calculate_kelly_contracts_uncapped(win_prob, no_price_cents, bankroll2) ==
    IF no_price_cents <= 0 \/ no_price_cents >= 100 THEN 0
    ELSE LET kn == win_prob - 10 * no_price_cents
             kd == 10 * (100 - no_price_cents)
             capped == kn * KELLY_FRACTION.d >= KELLY_FRACTION.n * kd
             fn == IF kn <= 0 THEN 0 ELSE IF capped THEN KELLY_FRACTION.n ELSE kn
             fd == IF kn <= 0 THEN 1 ELSE IF capped THEN KELLY_FRACTION.d ELSE kd
         IN IntTrunc(bankroll2 * fn, 2 * fd * no_price_cents)

\* a sizer that bets the full Kelly fraction
calculate_kelly_contracts_full(win_prob, no_price_cents, bankroll2) ==
    IF no_price_cents <= 0 \/ no_price_cents >= 100 THEN 0
    ELSE LET kn == win_prob - 10 * no_price_cents
             kd == 10 * (100 - no_price_cents)
             fn == IF kn <= 0 THEN 0 ELSE kn
             fd == IF kn <= 0 THEN 1 ELSE kd
         IN Min(IntTrunc(bankroll2 * fn, 2 * fd * no_price_cents), MAX_CONTRACTS)

\* calculate_kelly_contracts; bankroll2 is the budget in half cents.
\* kelly = (b*p - q)/b with b = (100-a)/a reduces to (P - 10a) / (10(100 - a)).
calculate_kelly_contracts(win_prob, no_price_cents, bankroll2) ==
    IF no_price_cents <= 0 \/ no_price_cents >= 100 THEN 0
    ELSE LET kn == win_prob - 10 * no_price_cents
             kd == 10 * (100 - no_price_cents)
             capped == kn * KELLY_FRACTION.d >= KELLY_FRACTION.n * kd
             fn == IF kn <= 0 THEN 0 ELSE IF capped THEN KELLY_FRACTION.n ELSE kn
             fd == IF kn <= 0 THEN 1 ELSE IF capped THEN KELLY_FRACTION.d ELSE kd
             contracts == IntTrunc(bankroll2 * fn, 2 * fd * no_price_cents)
         IN Min(contracts, MAX_CONTRACTS)

-----------------------------------------------------------------------------
(* Initial state: the process is about to be constructed *)

\* seen, net_edge: the held ticker whose quote the strike loop evaluated and the
\* net edge it computed; stale: the held ticker whose quote it passed over;
\* skip: why a quote that qualified led to no order;
\* ask, bid, prob: the quote an OPEN or ADD order was submitted for
NoEv == [exec |-> "none", ticker |-> "none", id |-> 0, status |-> "none",
         ret |-> FALSE, op |-> "none", put_failed |-> FALSE, del_failed |-> FALSE,
         log |-> "none", seen |-> "none", stale |-> "none", net_edge |-> 0,
         skip |-> "none",
         ask |-> 0, bid |-> 0, prob |-> 0]
NoCyc == [btc_price |-> 0, vol_15m |-> 0, samples |-> 0, minutes_to_hour |-> 0,
          bankroll |-> 0, spent |-> 0,
          remaining_exposure |-> 0, can_open_new |-> FALSE, idx |-> 0,
          snapshot |-> <<>>, xi |-> 0]
NoCur == [id |-> 0, ticker |-> "none", action |-> "none", contracts |-> 0,
          price |-> 0, edge |-> 0, polls |-> 0]

\* records left in the table by an earlier deployment
LegacyItems ==
    { [contracts |-> 2, avg_price_cents |-> Rat(80, 1), entry_edge |-> 1160,
       last_edge |-> 1160, btc_price_at_entry |-> 90000, strike_price |-> 90500,
       opened_at |-> 1, has_expiry |-> e.h, expiry_time |-> [t |-> e.t, tz |-> "naive"]]
      : e \in { [h |-> TRUE, t |-> 2], [h |-> FALSE, t |-> 0] } }

InitStores == {EmptyMap} \cup { [t \in {"T1"} |-> i] : i \in LegacyItems }

\* what the table of the other mode holds: a position of a process run in
\* that mode
OtherModeItems ==
    [t \in {"T2"} |->
        [contracts |-> 1, avg_price_cents |-> Rat(50, 1), entry_edge |-> 1200,
         last_edge |-> 1200, btc_price_at_entry |-> 90000, strike_price |-> 91000,
         opened_at |-> MaxHour, has_expiry |-> TRUE,
         expiry_time |-> [t |-> MaxHour + 1, tz |-> "naive"]]]

NoCall == [fn |-> "none"]

Init ==
    /\ dry_run \in BOOLEAN
    /\ pc = "boot"
    /\ now = 1
    /\ positions = EmptyMap
    /\ \E own \in InitStores :
          tables = [n \in TableNames |->
                      IF n = table_name(dry_run) THEN own ELSE OtherModeItems]
    /\ running = FALSE
    /\ signalled = FALSE
    /\ call = NoCall
    /\ simulated_balance = DRY_RUN_STARTING_BALANCE * 100
    /\ orders = <<>>
    /\ cyc = NoCyc
    /\ cur = NoCur
    /\ fills = EmptyMap
    /\ ev = NoEv

\* unconfirmed: a liquidation order for the position was submitted and
\* execute_trade returned None
FillOf(p) == [qty |-> p.contracts, cost |-> total_cost(p), unconfirmed |-> FALSE]

-----------------------------------------------------------------------------
(* Construction: PositionTracker.__init__ / _load_positions_from_dynamodb *)

\* the positions the load admits: the items that are not expired
LoadedTickers(st, utcnow) == {t \in DOMAIN st : ~is_expired(FromItem(st[t]), utcnow)}

\* a loader that only warns, whatever the mode
load_failed_warns(dr) == "ready"

\* the `except Exception` of _load_positions_from_dynamodb: dry-run prints a
\* warning and construction goes on; live raises RuntimeError, which neither
\* PositionTracker.__init__ nor HFTradingBot.__init__ nor main() catches
load_failed(dr) == IF dr THEN "ready" ELSE "failed"

Startup ==
    /\ pc = "boot"
    /\ \E scan_ok \in BOOLEAN, del_fail \in SUBSET (DOMAIN store \ LoadedTickers(store, now)) :
          IF ~scan_ok
          THEN \* table.scan raised: dry-run warns and goes on, live raises RuntimeError
               /\ pc' = load_failed(dry_run)
               /\ positions' = EmptyMap
               /\ UNCHANGED tables
               /\ ev' = [NoEv EXCEPT !.op = "load", !.status = "error"]
          ELSE LET keep == LoadedTickers(store, now)
                   gone == (DOMAIN store \ keep) \ del_fail
               IN /\ pc' = "ready"
                  /\ positions' = [t \in keep |-> FromItem(store[t])]
                  /\ SetStore([t \in DOMAIN store \ gone |-> store[t]])
                  /\ ev' = [NoEv EXCEPT !.op = "load", !.status = "ok",
                                        !.del_failed = (del_fail # {})]
    /\ fills' = [t \in DOMAIN positions' |-> FillOf(positions'[t])]
    /\ simulated_balance' = DRY_RUN_STARTING_BALANCE * 100
    /\ UNCHANGED <<dry_run, running, signalled, call, now, orders, cyc, cur>>

\* run(), up to the loop: `self.running = True`
RunStart ==
    /\ pc = "ready"
    /\ pc' = "idle"
    /\ running' = TRUE
    /\ ev' = NoEv
    /\ UNCHANGED <<dry_run, signalled, call, now, positions, tables,
                   simulated_balance, orders, cyc, cur, fills>>

\* _handle_shutdown, registered at the end of HFTradingBot.__init__: SIGINT or
\* SIGTERM arrives between two bytecodes of the main thread
handle_shutdown ==
    /\ pc \in {"ready", "idle", "scan", "wait", "cancel", "exits"}
    /\ running' = FALSE
    /\ signalled' = TRUE
    /\ UNCHANGED <<dry_run, call, pc, now, positions, tables, simulated_balance,
                   orders, cyc, cur, fills, ev>>

\* `while self.running` fails (the sleep loop breaks as soon as running is
\* False): the finally block prints the summary and saves the session
LoopExit ==
    /\ pc = "idle"
    /\ ~running
    /\ pc' = "done"
    /\ ev' = NoEv
    /\ UNCHANGED <<dry_run, running, signalled, call, now, positions, tables,
                   simulated_balance, orders, cyc, cur, fills>>

\* the process is stopped during the sleep between two cycles (or after a
\* failed construction, or after run() returned) and started again: memory is
\* lost, the tables are not
Restart ==
    /\ pc \in {"idle", "failed", "done"}
    /\ pc' = "boot"
    /\ positions' = EmptyMap
    /\ fills' = EmptyMap
    /\ cyc' = NoCyc
    /\ cur' = NoCur
    /\ ev' = NoEv
    /\ running' = FALSE
    /\ signalled' = FALSE
    /\ UNCHANGED <<dry_run, call, now, tables, simulated_balance, orders>>

\* the wall clock passes the top of the hour while the loop sleeps
Tick ==
    /\ pc = "idle"
    /\ now < MaxHour
    /\ now' = now + 1
    /\ ev' = NoEv
    /\ UNCHANGED <<dry_run, running, signalled, call, pc, positions, tables, simulated_balance, orders, cyc,
                   cur, fills>>

-----------------------------------------------------------------------------
(* scan_and_trade, up to the strike loop *)

\* a price feed taken at its word
get_btc_price_unchecked(raw) == raw

\* get_btc_price: the sanity range; 0 stands for None
get_btc_price(raw) == IF raw < 10000 \/ raw > 500000 THEN 0 ELSE raw

current_exposure(ps) == SumOver([t \in DOMAIN ps |-> total_cost(ps[t])], DOMAIN ps)

\* a loop driven by a timer instead of by the return of the last cycle
CycleMayStart_timer == pc \in {"idle", "wait"} /\ running

\* run(): `while self.running:` is reached when the constructor, or the last
\* scan_and_trade call and the sleep after it, have returned
CycleMayStart == pc = "idle" /\ running

\* entries that are allowed whatever the time left
can_open_new_any_time(minutes_to_hour, remaining_exposure) == remaining_exposure > 0

\* `can_open_new = minutes_to_hour > TRADING_CUTOFF_MINUTES and
\* remaining_exposure > 0`
can_open_new(minutes_to_hour, remaining_exposure) ==
    minutes_to_hour > TRADING_CUTOFF_MINUTES /\ remaining_exposure > 0

\* one of the early returns of scan_and_trade
SkipCycle ==
    /\ pc' = "idle"
    /\ cyc' = NoCyc
    /\ cur' = NoCur
    /\ ev' = [NoEv EXCEPT !.op = "skip"]

\* the fetches happen one after the other: the first one that fails ends the
\* cycle and the later ones are not made
BeginCycleOn(prices, vols, balances) ==
    /\ CycleMayStart
    /\ \E raw \in prices :
          LET btc_price == get_btc_price(raw)
          IN IF btc_price = 0 THEN SkipCycle
             ELSE \E vol \in vols :
             IF vol.samples < 10 THEN SkipCycle
             ELSE \E have_markets \in BOOLEAN :
             IF ~have_markets THEN SkipCycle
             ELSE \E live_balance \in (IF dry_run THEN {0} ELSE balances) :
             LET bankroll == IF dry_run THEN simulated_balance ELSE live_balance
                 exposure == current_exposure(positions)
                 remaining == (2 * bankroll * MAX_EXPOSURE_FRACTION.n)
                                  \div MAX_EXPOSURE_FRACTION.d - 2 * exposure
             IN IF bankroll < 0 THEN SkipCycle
                ELSE IF bankroll = 0
                THEN \* current_exposure/bankroll raises ZeroDivisionError,
                     \* which run() catches: the cycle ends there
                     /\ pc' = "idle"
                     /\ cyc' = NoCyc
                     /\ cur' = NoCur
                     /\ ev' = [NoEv EXCEPT !.op = "raise"]
                ELSE \E minutes \in MinutesSet :
                     /\ pc' = "scan"
                     /\ cur' = NoCur
                     /\ ev' = [NoEv EXCEPT !.op = "begin"]
                     /\ cyc' = [btc_price |-> btc_price, vol_15m |-> vol.std,
                                samples |-> vol.samples,
                                minutes_to_hour |-> minutes,
                                bankroll |-> bankroll, spent |-> 0,
                                remaining_exposure |-> remaining,
                                can_open_new |-> can_open_new(minutes, remaining),
                                idx |-> 1, snapshot |-> <<>>, xi |-> 0]
    /\ UNCHANGED <<dry_run, running, signalled, call, now, positions, tables,
                   simulated_balance, orders, fills>>

BeginCycle == BeginCycleOn(FeedPrices, VolFeed, LiveBalances)

-----------------------------------------------------------------------------
(* execute_trade and the ledger call that follows it *)

\* expiry_time as scan_and_trade computes it: the top of the next hour,
\* converted to UTC and written with isoformat(), which keeps the offset
expiry_time_of(utcnow) == [t |-> utcnow + 1, tz |-> "aware"]

\* a liquidation that returns the order id whatever the status
LiquidateReturns_unchecked(status, record_ok) == status # "error" /\ record_ok

\* execute_trade, live LIQUIDATE branch: an order id only for a filled order
\* whose trade record was written
LiquidateReturns(status, record_ok) == status = "filled" /\ record_ok

\* a buy that takes a pending order for a filled one
SubmitReturns_pending(status, record_ok) ==
    status \in {"filled", "pending"} /\ record_ok

\* execute_trade, live buy branch, on the response to create_order
SubmitReturns(status, record_ok) == status = "filled" /\ record_ok

\* `if order_id:` in scan_and_trade
OrderIdTruthy(ret) == ret

\* an entry of the broker's book; the book tells an open order from a matched
\* or a cancelled one, so a response of 'pending' leaves an open ("resting")
\* order behind
NewOrder(ticker, status, recorded) ==
    [ticker |-> ticker,
     status |-> IF status = "pending" THEN "resting" ELSE status,
     recorded |-> recorded]

\* the order can still be matched
InFlight(status) == status = "resting"

\* a tracker that takes the mutation back when the put fails
ledger_after_save_abort(ps1, ps2, put_ok) == IF put_ok THEN ps2 ELSE ps1

\* the ledger when open_position / add_to_position return: self.positions is
\* assigned before _save_position_to_dynamodb is called, and what that call
\* returns (True in dry-run, False in live mode after a failed put) is dropped
ledger_after_save(ps1, ps2, put_ok) == ps2

\* open_position / add_to_position after a successful execute_trade
RecordEntry(ps1, ticker, action, contracts, price, edge, btc_price, strike_price, put_ok) ==
    LET ps2 == IF action = "open"
               THEN open_position(ps1, ticker, contracts, price, edge,
                                  btc_price, strike_price, expiry_time_of(now))
               ELSE add_to_position(ps1, ticker, contracts, price, edge)
    IN /\ positions' = ledger_after_save(ps1, ps2, put_ok)
       /\ SetStore(save_position(store, ticker, ps2[ticker], put_ok))
       /\ fills' = [t \in DOMAIN ps2 |->
                      IF t # ticker THEN fills[t]
                      ELSE IF action = "open"
                           THEN [qty |-> contracts, cost |-> contracts * price,
                                 unconfirmed |-> FALSE]
                           ELSE [fills[t] EXCEPT
                                   !.qty = @ + contracts,
                                   !.cost = @ + contracts * price]]

\* close_position after a successful liquidation
RecordExit(ticker, del_ok) ==
    /\ positions' = close_position(positions, ticker)
    /\ SetStore(delete_position(store, ticker, del_ok))
    /\ fills' = [t \in DOMAIN fills \ {ticker} |-> fills[t]]

NextStrike(c) == [c EXCEPT !.idx = @ + 1]

Spend(c, contracts, price) ==
    [c EXCEPT !.idx = @ + 1, !.remaining_exposure = @ - 2 * contracts * price,
              !.spent = @ + contracts * price]

\* the cycle ends with an exception, caught in run()
AbortCycle ==
    /\ pc' = "idle"
    /\ cyc' = NoCyc
    /\ cur' = NoCur

\* the quote an OPEN or ADD order is submitted for, noted in the event
Quoted(action, ticker, no_ask, no_bid, model_prob, net_edge) ==
    [NoEv EXCEPT !.seen = IF action = "add" THEN ticker ELSE "none",
                 !.net_edge = net_edge, !.ask = no_ask, !.bid = no_bid,
                 !.prob = model_prob]

\* dry-run execute_trade for OPEN/ADD and the caller's ledger call
DryEntry(ps1, ticker, action, contracts, price, edge, no_bid, model_prob) ==
    \E record_ok \in BOOLEAN, put_ok \in BOOLEAN :
       IF record_ok
       THEN /\ simulated_balance' = simulated_balance - contracts * price
            /\ RecordEntry(ps1, ticker, action, contracts, price, edge,
                            cyc.btc_price, StrikeOf(ticker), put_ok)
            /\ cyc' = Spend(cyc, contracts, price)
            /\ ev' = [Quoted(action, ticker, price, no_bid, model_prob, edge)
                        EXCEPT !.exec = action,
                                  !.ticker = ticker,
                                  !.status = "filled",
                                  !.ret = TRUE,
                                  !.op = action,
                                  !.put_failed = ~put_ok,
                                  !.log = trade_table_name(dry_run)]
            /\ UNCHANGED <<pc, cur, orders>>
       ELSE \* record_trade raised: nothing in execute_trade catches it here
            /\ positions' = ps1
            /\ AbortCycle
            /\ ev' = [Quoted(action, ticker, price, no_bid, model_prob, edge)
                        EXCEPT !.exec = action, !.ticker = ticker,
                                  !.status = "error",
                                  !.log = trade_table_name(dry_run)]
            /\ UNCHANGED <<simulated_balance, tables, fills, orders>>

\* live execute_trade for OPEN/ADD up to the response to create_order
LiveEntry(ps1, ticker, action, contracts, price, edge, no_bid, model_prob) ==
    /\ Len(orders) < MaxOrders
    \* record_trade and put_item only run after a filled response
    /\ \E status \in OrderStatuses \cup {"error"} :
       \E record_ok \in (IF status = "filled" THEN BOOLEAN ELSE {TRUE}) :
       \E put_ok \in (IF status = "filled" /\ record_ok THEN BOOLEAN ELSE {TRUE}) :
          LET ret == SubmitReturns(status, record_ok)
              id == Len(orders) + 1
          IN /\ orders' = IF status = "error" THEN orders
                          ELSE Append(orders, NewOrder(ticker, status,
                                                       OrderIdTruthy(ret)))
             /\ IF status = "resting"
                THEN /\ pc' = "wait"
                     /\ cur' = [id |-> id, ticker |-> ticker, action |-> action,
                                contracts |-> contracts, price |-> price,
                                edge |-> edge, polls |-> 0]
                     /\ positions' = ps1
                     /\ ev' = [Quoted(action, ticker, price, no_bid, model_prob, edge)
                        EXCEPT !.exec = action, !.ticker = ticker,
                                           !.id = id, !.status = status]
                     /\ UNCHANGED <<cyc, tables, fills>>
                ELSE IF OrderIdTruthy(ret)
                THEN /\ RecordEntry(ps1, ticker, action, contracts, price, edge,
                            cyc.btc_price, StrikeOf(ticker), put_ok)
                     /\ cyc' = Spend(cyc, contracts, price)
                     /\ ev' = [Quoted(action, ticker, price, no_bid, model_prob, edge)
                        EXCEPT !.exec = action,
                                           !.ticker = ticker,
                                           !.id = id,
                                           !.status = status,
                                           !.ret = TRUE,
                                           !.op = action,
                                           !.put_failed = ~put_ok,
                                           !.log = trade_table_name(dry_run)]
                     /\ UNCHANGED <<pc, cur>>
                ELSE /\ positions' = ps1
                     /\ cyc' = NextStrike(cyc)
                     /\ ev' = [Quoted(action, ticker, price, no_bid, model_prob, edge)
                        EXCEPT !.exec = action, !.ticker = ticker,
                                           !.id = IF status = "error" THEN 0 ELSE id,
                                           !.status = status,
                                           !.log = IF status = "filled"
                                                   THEN trade_table_name(dry_run)
                                                   ELSE "none"]
                     /\ UNCHANGED <<pc, cur, tables, fills>>
    /\ UNCHANGED simulated_balance

-----------------------------------------------------------------------------
(* scan_and_trade: one iteration of the strike loop *)

\* a quote has an ask to buy at: `if not no_ask or no_ask <= 0 or no_ask >= 100`
HasAsk(no_ask) == no_ask > 0 /\ no_ask < 100

\* a model that has a probability for any input
probability_defined_always(vol_std_pct, minutes) == TRUE

\* calculate_model_probability does not return None:
\* `if vol_std_pct <= 0 or minutes_to_settlement <= 0: return None`
probability_defined(vol_std_pct, minutes) == vol_std_pct > 0 /\ minutes > 0

\* a strike loop that looks at the strikes at or below the spot as well
quote_evaluated_any_strike(market, no_ask, btc_price, vol_15m, minutes) ==
    /\ HasAsk(no_ask)
    /\ probability_defined(vol_15m, minutes)

\* the iteration gets past its three `continue`s: the strike is above the
\* spot, the quote has an ask and calculate_model_probability does not
\* return None
quote_evaluated(market, no_ask, btc_price, vol_15m, minutes) ==
    /\ market.floor_strike > btc_price
    /\ HasAsk(no_ask)
    /\ probability_defined(vol_15m, minutes)

\* `spread = (no_ask - no_bid) if no_bid > 0 else None` and
\* `if spread is not None and spread > MAX_SLIPPAGE_CENTS`
spread_too_wide(no_ask, no_bid) ==
    no_bid > 0 /\ no_ask - no_bid > MAX_SLIPPAGE_CENTS

EvalStrikeOn(markets, probs) ==
    /\ pc = "scan"
    /\ cyc.idx <= Len(markets)
    \* the model probability only matters for a quoted strike, the bid only in
    \* the spread check of a strike that qualifies for an entry
    /\ \E no_ask \in AskSet :
       \E model_prob \in (IF HasAsk(no_ask) THEN probs ELSE {0}) :
       \E no_bid \in (IF /\ HasAsk(no_ask)
                         /\ net_edge_of(model_prob, no_ask) >= MIN_EDGE_PCT * 100
                         /\ cyc.can_open_new
                      THEN BidSet ELSE {0}) :
          LET market == markets[cyc.idx]
              ticker == market.ticker
              evaluated == quote_evaluated(market, no_ask, cyc.btc_price,
                                           cyc.vol_15m, cyc.minutes_to_hour)
              net_edge == net_edge_of(model_prob, no_ask)
              \* update_edge comes before the entry decision
              ps1 == IF evaluated THEN update_edge(positions, ticker, net_edge)
                     ELSE positions
              held == has_position(ticker)
              action == IF held THEN "add" ELSE "open"
              contracts == calculate_kelly_contracts(model_prob, no_ask,
                                                     cyc.remaining_exposure)
              qualifies == /\ evaluated
                           /\ net_edge >= MIN_EDGE_PCT * 100
                           /\ cyc.can_open_new
              spread_wide == spread_too_wide(no_ask, no_bid)
              add_ok == held => can_add_to_position(ps1, ticker, net_edge)
              trade == qualifies /\ ~spread_wide /\ add_ok /\ contracts > 0
          IN IF trade
             THEN IF dry_run
                  THEN DryEntry(ps1, ticker, action, contracts, no_ask, net_edge,
                                no_bid, model_prob)
                  ELSE LiveEntry(ps1, ticker, action, contracts, no_ask, net_edge,
                                 no_bid, model_prob)
             ELSE /\ positions' = ps1
                  /\ cyc' = NextStrike(cyc)
                  /\ ev' = IF evaluated /\ held
                           THEN [NoEv EXCEPT
                                   !.seen = ticker,
                                   !.net_edge = net_edge,
                                   !.skip = IF ~qualifies THEN "none"
                                            ELSE IF spread_wide THEN "spread"
                                            ELSE IF ~add_ok THEN "add_rule"
                                            ELSE "size"]
                           ELSE IF held THEN [NoEv EXCEPT !.stale = ticker]
                           ELSE NoEv
                  /\ UNCHANGED <<pc, cur, tables, fills, simulated_balance, orders>>
    /\ UNCHANGED <<dry_run, running, signalled, call, now>>

EvalStrike == EvalStrikeOn(Markets, ProbSet)

-----------------------------------------------------------------------------
(* execute_trade: waiting for a resting buy order *)

\* a poll that takes any answer for a fill
PollReturns_any(status, record_ok) == status # "error" /\ record_ok

\* one iteration of the poll loop: an order id only when get_order reports
\* filled and the trade record is written; an exception of get_order or of
\* record_trade is swallowed by the bare except and the loop goes on
PollReturns(status, record_ok) == status = "filled" /\ record_ok

\* a wait that polls until the order leaves the book
polls_left_unbounded(polls) == TRUE

\* `for _ in range(ORDER_TIMEOUT_SEC // 2)`: an iteration is left
polls_left(polls) == polls < ORDER_TIMEOUT_SEC \div 2

Poll ==
    /\ pc = "wait"
    /\ polls_left(cur.polls)
    /\ \E get_ok \in BOOLEAN :
       \E record_ok \in (IF get_ok /\ orders[cur.id].status = "filled"
                         THEN BOOLEAN ELSE {TRUE}) :
       \E put_ok \in (IF get_ok /\ orders[cur.id].status = "filled" /\ record_ok
                      THEN BOOLEAN ELSE {TRUE}) :
          LET status == IF get_ok THEN orders[cur.id].status ELSE "error"
              ret == PollReturns(status, record_ok)
          IN IF OrderIdTruthy(ret)
             THEN /\ RecordEntry(positions, cur.ticker, cur.action, cur.contracts,
                                 cur.price, cur.edge, cyc.btc_price,
                                 StrikeOf(cur.ticker), put_ok)
                  /\ orders' = [orders EXCEPT ![cur.id].recorded = TRUE]
                  /\ cyc' = Spend(cyc, cur.contracts, cur.price)
                  /\ pc' = "scan"
                  /\ cur' = NoCur
                  /\ ev' = [NoEv EXCEPT !.exec = cur.action,
                                        !.ticker = cur.ticker,
                                        !.id = cur.id,
                                        !.status = status,
                                        !.ret = TRUE,
                                        !.op = cur.action,
                                        !.put_failed = ~put_ok,
                                        !.log = trade_table_name(dry_run)]
             ELSE /\ IF status \in {"resting", "pending", "filled", "error"}
                     THEN /\ cur' = [cur EXCEPT !.polls = @ + 1]
                          /\ pc' = pc
                     ELSE \* cancelled or rejected: break
                          /\ cur' = cur
                          /\ pc' = "cancel"
                  /\ ev' = [NoEv EXCEPT !.log = IF status = "filled"
                                                THEN trade_table_name(dry_run)
                                                ELSE "none"]
                  /\ UNCHANGED <<positions, tables, fills, orders, cyc>>
    /\ UNCHANGED <<dry_run, running, signalled, call, now, simulated_balance>>

\* after the loop: best-effort cancel_order, then return None
Cancel ==
    /\ \/ pc = "cancel"
       \/ pc = "wait" /\ ~polls_left(cur.polls)
    /\ \E cancel_ok \in BOOLEAN :
          orders' = IF cancel_ok /\ InFlight(orders[cur.id].status)
                    THEN [orders EXCEPT ![cur.id].status = "canceled"]
                    ELSE orders
    /\ pc' = "scan"
    /\ cyc' = NextStrike(cyc)
    /\ cur' = NoCur
    /\ ev' = [NoEv EXCEPT !.exec = cur.action, !.ticker = cur.ticker,
                          !.id = cur.id, !.status = "timeout"]
    /\ UNCHANGED <<dry_run, running, signalled, call, now, positions, tables, simulated_balance, fills>>

\* the broker matches or cancels an order that is on its book
BrokerUpdate ==
    /\ \E i \in 1..Len(orders), s \in {"filled", "canceled"} :
          /\ InFlight(orders[i].status)
          /\ orders' = [orders EXCEPT ![i].status = s]
    /\ ev' = NoEv
    /\ UNCHANGED <<dry_run, running, signalled, call, pc, now, positions, tables, simulated_balance, cyc, cur,
                   fills>>

-----------------------------------------------------------------------------
(* scan_and_trade: the exit pass *)

TickerSeq == <<"T1", "T2", "U1", "U2">>

\* list(self.position_tracker.get_all_positions())
Snapshot(ps) == SelectSeq(TickerSeq, LAMBDA t : t \in DOMAIN ps)

EndStrikes ==
    /\ pc = "scan"
    /\ cyc.idx > Len(Markets)
    /\ pc' = "exits"
    \* the exit pass reads btc_price and none of the other locals any more
    /\ cyc' = [NoCyc EXCEPT !.btc_price = cyc.btc_price, !.samples = cyc.samples,
                            !.snapshot = Snapshot(positions), !.xi = 1]
    /\ ev' = NoEv
    /\ UNCHANGED <<dry_run, running, signalled, call, now, positions, tables, simulated_balance, orders, cur,
                   fills>>

NextExit(c) == [c EXCEPT !.xi = @ + 1]

\* an exit test on the edge the position was entered at
ExitDue_entry(pos) == pos.entry_edge <= EXIT_EDGE_PCT * 100

\* `if pos.last_edge <= EXIT_EDGE_PCT`
ExitDue(pos) == pos.last_edge <= EXIT_EDGE_PCT * 100

ExitStep ==
    /\ pc = "exits"
    /\ cyc.xi <= Len(cyc.snapshot)
    /\ LET ticker == cyc.snapshot[cyc.xi]
           pos == positions[ticker]
           \* int(pos.avg_price_cents)
           price == IntTrunc(pos.avg_price_cents.n, pos.avg_price_cents.d)
       IN IF ExitDue(pos)
          THEN IF dry_run
               THEN \E record_ok \in BOOLEAN, del_ok \in BOOLEAN :
                       IF record_ok
                       THEN /\ simulated_balance' =
                                   simulated_balance + pos.contracts * price
                            /\ RecordExit(ticker, del_ok)
                            /\ cyc' = NextExit(cyc)
                            /\ ev' = [NoEv EXCEPT !.exec = "liquidate",
                                                  !.ticker = ticker,
                                                  !.status = "filled",
                                                  !.ret = TRUE,
                                                  !.op = "close",
                                                  !.del_failed = ~del_ok,
                                                  !.log = trade_table_name(dry_run)]
                            /\ UNCHANGED <<pc, cur, orders>>
                       ELSE /\ AbortCycle
                            /\ ev' = [NoEv EXCEPT !.exec = "liquidate",
                                                  !.ticker = ticker,
                                                  !.status = "error",
                                                  !.log = trade_table_name(dry_run)]
                            /\ UNCHANGED <<positions, tables, fills,
                                           simulated_balance, orders>>
               ELSE /\ Len(orders) < MaxOrders
                    /\ \E status \in OrderStatuses \cup {"error"} :
                       \E record_ok \in (IF status = "filled" THEN BOOLEAN
                                         ELSE {TRUE}) :
                       \E del_ok \in (IF status = "filled" /\ record_ok
                                      THEN BOOLEAN ELSE {TRUE}) :
                          LET ret == LiquidateReturns(status, record_ok)
                          IN /\ orders' =
                                  IF status = "error" THEN orders
                                  ELSE Append(orders,
                                         NewOrder(ticker, status, OrderIdTruthy(ret)))
                             /\ IF OrderIdTruthy(ret)
                                THEN /\ RecordExit(ticker, del_ok)
                                     /\ ev' = [NoEv EXCEPT !.exec = "liquidate",
                                                           !.ticker = ticker,
                                                           !.id = Len(orders'),
                                                           !.status = status,
                                                           !.ret = TRUE,
                                                           !.op = "close",
                                                           !.del_failed = ~del_ok,
                                                           !.log = trade_table_name(dry_run)]
                                ELSE /\ ev' = [NoEv EXCEPT !.exec = "liquidate",
                                                           !.ticker = ticker,
                                                           !.id = IF status = "error"
                                                                  THEN 0
                                                                  ELSE Len(orders'),
                                                           !.status = status,
                                                           !.log =
                                                             IF status = "filled"
                                                             THEN trade_table_name(dry_run)
                                                             ELSE "none"]
                                     /\ fills' = IF status = "error" THEN fills
                                                 ELSE [fills EXCEPT
                                                         ![ticker].unconfirmed = TRUE]
                                     /\ UNCHANGED <<positions, tables>>
                             /\ cyc' = NextExit(cyc)
                             /\ UNCHANGED <<pc, cur, simulated_balance>>
          ELSE /\ cyc' = NextExit(cyc)
               /\ ev' = NoEv
               /\ UNCHANGED <<pc, cur, positions, tables, fills, simulated_balance,
                              orders>>
    /\ UNCHANGED <<dry_run, running, signalled, call, now>>

EndCycle ==
    /\ pc = "exits"
    /\ cyc.xi > Len(cyc.snapshot)
    /\ pc' = "idle"
    /\ cyc' = NoCyc
    /\ ev' = NoEv
    /\ UNCHANGED <<dry_run, running, signalled, call, now, positions, tables, simulated_balance, orders, cur,
                   fills>>

-----------------------------------------------------------------------------

Next ==
    \/ Startup
    \/ RunStart
    \/ Restart
    \/ Tick
    \/ BeginCycle
    \/ EvalStrike
    \/ Poll
    \/ Cancel
    \/ BrokerUpdate
    \/ EndStrikes
    \/ ExitStep
    \/ EndCycle

Spec == Init /\ [][Next]_vars

\* the same process within one hour and on a wider market: a spot above the
\* first strike, a model probability whose gross edge reaches MIN_EDGE_PCT and
\* whose net edge does not, a balance too small for the exposure held
WideFeedPrices == FeedPrices \cup {90700}
WideProbSet == ProbSet \cup {910}
WideLiveBalances == LiveBalances \cup {300}

ScanBegin == BeginCycleOn(WideFeedPrices, VolFeed, WideLiveBalances)

ScanStrike == EvalStrikeOn(Markets, WideProbSet)

ScanNext ==
    \/ Startup
    \/ RunStart
    \/ Restart
    \/ ScanBegin
    \/ ScanStrike
    \/ Poll
    \/ Cancel
    \/ BrokerUpdate
    \/ EndStrikes
    \/ ExitStep
    \/ EndCycle

ScanSpec == Init /\ [][ScanNext]_vars

\* the same process within one hour and on a volatility feed that can hold a
\* record with enough samples and a standard deviation of zero
WideVolFeed == VolFeed \cup {[std |-> 0, samples |-> 20]}

VolBegin == BeginCycleOn(FeedPrices, WideVolFeed, LiveBalances)

VolNext ==
    \/ Startup
    \/ RunStart
    \/ Restart
    \/ VolBegin
    \/ EvalStrike
    \/ Poll
    \/ Cancel
    \/ BrokerUpdate
    \/ EndStrikes
    \/ ExitStep
    \/ EndCycle

VolSpec == Init /\ [][VolNext]_vars

\* the same process, kept running over the hours, on the markets of each hour
WindowStrike == EvalStrikeOn(MarketsAt(now), ProbSet)

WindowNext ==
    \/ Startup
    \/ RunStart
    \/ Tick
    \/ BeginCycle
    \/ WindowStrike
    \/ Poll
    \/ Cancel
    \/ BrokerUpdate
    \/ EndStrikes
    \/ ExitStep
    \/ EndCycle

WindowSpec == Init /\ [][WindowNext]_vars

\* the same process with shutdown signals
RunNext == Next \/ handle_shutdown \/ LoopExit

RunSpec == Init /\ [][RunNext]_vars

TypeOK ==
    /\ dry_run \in BOOLEAN
    /\ pc \in {"boot", "failed", "ready", "idle", "scan", "wait", "cancel", "exits",
              "done", "tracker", "calc"}
    /\ running \in BOOLEAN
    /\ signalled \in BOOLEAN
    /\ DOMAIN tables = TableNames
    /\ DOMAIN positions \subseteq Tickers
    /\ DOMAIN store \subseteq Tickers
    /\ DOMAIN fills = DOMAIN positions
    /\ \A t \in DOMAIN positions : positions[t].contracts > 0
    /\ Len(orders) <= MaxOrders

-----------------------------------------------------------------------------
(* PositionTracker driven directly: any sequence of open_position,           *)
(* add_to_position, update_edge and close_position calls, with the store     *)
(* failing or not.  The caller opens a ticker it does not hold and adds to   *)
(* or closes one it holds, as scan_and_trade does.                           *)

TrackerTickers == {"T1"}
ContractSet == {1, 2}
PriceSet == {50, 81}
EdgeSet == {-140, 1160}
TrackerSpots == {90000}

TrackerInit ==
    /\ dry_run \in BOOLEAN
    /\ pc = "tracker"
    /\ now = 1
    /\ positions = EmptyMap
    /\ tables = [n \in TableNames |->
                   IF n = table_name(dry_run) THEN EmptyMap ELSE OtherModeItems]
    /\ running = FALSE
    /\ signalled = FALSE
    /\ call = NoCall
    /\ simulated_balance = DRY_RUN_STARTING_BALANCE * 100
    /\ orders = <<>>
    /\ cyc = NoCyc
    /\ cur = NoCur
    /\ fills = EmptyMap
    /\ ev = NoEv

TOpen ==
    /\ pc = "tracker"
    /\ \E ticker \in TrackerTickers \ DOMAIN positions, contracts \in ContractSet,
          price \in PriceSet, edge \in EdgeSet, btc_price \in TrackerSpots,
          put_ok \in BOOLEAN :
          /\ RecordEntry(positions, ticker, "open", contracts, price, edge,
                         btc_price, StrikeOf(ticker), put_ok)
          /\ ev' = [NoEv EXCEPT !.ticker = ticker, !.op = "open",
                                !.put_failed = ~put_ok]
    /\ UNCHANGED <<dry_run, running, signalled, call, pc, now, simulated_balance, orders, cyc, cur>>

TAdd ==
    /\ pc = "tracker"
    /\ \E ticker \in DOMAIN positions, contracts \in ContractSet,
          price \in PriceSet, edge \in EdgeSet, put_ok \in BOOLEAN :
          /\ positions[ticker].contracts + contracts <= MaxHeld
          /\ RecordEntry(positions, ticker, "add", contracts, price, edge,
                         0, StrikeOf(ticker), put_ok)
          /\ ev' = [NoEv EXCEPT !.ticker = ticker, !.op = "add",
                                !.put_failed = ~put_ok]
    /\ UNCHANGED <<dry_run, running, signalled, call, pc, now, simulated_balance, orders, cyc, cur>>

TUpdateEdge ==
    /\ pc = "tracker"
    /\ \E ticker \in TrackerTickers, edge \in EdgeSet :
          /\ positions' = update_edge(positions, ticker, edge)
          /\ ev' = [NoEv EXCEPT !.ticker = ticker, !.op = "update_edge"]
    /\ UNCHANGED <<dry_run, running, signalled, call, pc, now, tables, simulated_balance, orders, cyc, cur,
                   fills>>

TClose ==
    /\ pc = "tracker"
    /\ \E ticker \in DOMAIN positions, del_ok \in BOOLEAN :
          /\ RecordExit(ticker, del_ok)
          /\ ev' = [NoEv EXCEPT !.ticker = ticker, !.op = "close",
                                !.del_failed = ~del_ok]
    /\ UNCHANGED <<dry_run, running, signalled, call, pc, now, simulated_balance, orders, cyc, cur>>

\* time passes between two calls
TTick ==
    /\ pc = "tracker"
    /\ now < MaxHour
    /\ now' = now + 1
    /\ ev' = NoEv
    /\ UNCHANGED <<dry_run, running, signalled, call, pc, positions, tables,
                   simulated_balance, orders, cyc, cur, fills>>

TrackerNext == TOpen \/ TAdd \/ TUpdateEdge \/ TClose

TrackerSpec == TrackerInit /\ [][TrackerNext]_vars

\* the same calls spread over several hours
TimedTrackerNext == TrackerNext \/ TTick

TimedTrackerSpec == TrackerInit /\ [][TimedTrackerNext]_vars

-----------------------------------------------------------------------------
(* The pure functions applied to arguments of the caller's choice *)

\* win probabilities in thousandths
WinProbs == {0, 500, 800, 801, 930, 1000}
CallAsks == {-1, 0, 1, 2, 50, 80, 85, 98, 99, 100, 101}
\* budgets in half cents
Budgets == {0, 1, 159, 160, 161, 2000, 20000, 400000}
GrossEdges == {-500, 0, 1300}
FeeContracts == {1, 5, 10}
SpotSet == {90000}
\* with vol 25 the strikes 90045, 90450, 91350 and 91395 are 0.2, 2, 6 and 6.2
\* standard deviations above the spot at 15 minutes, half that at 60
StrikeSet == {89000, 89900, 90045, 90100, 90450, 90500, 91350, 91395}
VolSet == {0, 8, 25, 30}
MinuteSet == {0, 15, 40, 60}

CalcInit ==
    /\ dry_run = TRUE
    /\ pc = "calc"
    /\ now = 1
    /\ positions = EmptyMap
    /\ tables = [n \in TableNames |-> EmptyMap]
    /\ simulated_balance = DRY_RUN_STARTING_BALANCE * 100
    /\ orders = <<>>
    /\ cyc = NoCyc
    /\ cur = NoCur
    /\ fills = EmptyMap
    /\ ev = NoEv
    /\ running = FALSE
    /\ signalled = FALSE
    /\ call = NoCall

\* a call changes nothing but the record of the call
CalcFrame ==
    /\ pc = "calc"
    /\ UNCHANGED <<dry_run, pc, now, positions, tables, simulated_balance, orders,
                   cyc, cur, fills, ev, running, signalled>>

CallKelly ==
    /\ CalcFrame
    /\ \E win_prob \in WinProbs, no_price_cents \in CallAsks, bankroll2 \in Budgets :
       call' = [fn |-> "calculate_kelly_contracts", win_prob |-> win_prob,
                no_price_cents |-> no_price_cents, bankroll2 |-> bankroll2,
                result |-> calculate_kelly_contracts(win_prob, no_price_cents,
                                                     bankroll2)]

CallFee ==
    /\ CalcFrame
    /\ \E contracts \in FeeContracts, price_cents \in CallAsks \cap (1..99) :
       call' = [fn |-> "calculate_fee", contracts |-> contracts,
                price_cents |-> price_cents,
                result |-> calculate_fee(contracts, price_cents)]

CallNetEdge ==
    /\ CalcFrame
    /\ \E gross_edge_pct \in GrossEdges, price_cents \in CallAsks :
       call' = [fn |-> "calculate_net_edge", gross_edge_pct |-> gross_edge_pct,
                price_cents |-> price_cents,
                fee_pct |-> calculate_kalshi_fee_pct(price_cents),
                result |-> calculate_net_edge(gross_edge_pct, price_cents)]

CallProbability ==
    /\ CalcFrame
    /\ \E btc_price \in SpotSet, strike_price \in StrikeSet, vol_std_pct \in VolSet,
       minutes \in MinuteSet :
       call' = [fn |-> "calculate_model_probability", btc_price |-> btc_price,
                strike_price |-> strike_price, vol_std_pct |-> vol_std_pct,
                minutes |-> minutes,
                result |-> model_probability(btc_price, strike_price,
                                             vol_std_pct, minutes)]

CalcNext == CallKelly \/ CallFee \/ CallNetEdge \/ CallProbability

CalcSpec == CalcInit /\ [][CalcNext]_vars

-----------------------------------------------------------------------------
(* Properties *)

\* contracts and avg_price_cents of every position of a ledger
Core(ps) == [t \in DOMAIN ps |->
               [contracts |-> ps[t].contracts,
                avg_price_cents |-> ps[t].avg_price_cents]]

\* C1: in live mode a liquidation order whose response is not 'filled' makes
\* execute_trade return None and close_position is not called; the position
\* stays in the ledger with the same contracts and avg_price_cents, and
\* nothing else in the exit pass removes or changes it.
C1_UnfilledLiquidationKeepsPosition ==
    [][ /\ (~dry_run /\ ev'.exec = "liquidate" /\ ev'.status # "filled")
           => /\ ~ev'.ret
              /\ ev'.op = "none"
              /\ ev'.ticker \in DOMAIN positions'
              /\ Core(positions') = Core(positions)
        /\ (~dry_run /\ pc = "exits")
           => \A t \in DOMAIN positions :
                 \/ /\ t \in DOMAIN positions'
                    /\ Core(positions')[t] = Core(positions)[t]
                 \/ /\ ev'.exec = "liquidate" /\ ev'.ticker = t
                    /\ ev'.status = "filled" /\ ev'.ret
      ]_vars

C1_Witness ==
    /\ ~dry_run
    /\ pc = "exits"
    /\ ev.exec = "liquidate"
    /\ ev.status \in {"resting", "pending", "canceled"}
    /\ ev.ticker \in DOMAIN positions
    /\ positions[ev.ticker].last_edge <= EXIT_EDGE_PCT * 100

\* C2 (as claimed): in live mode a failed put during open_position or
\* add_to_position aborts the mutation: the ledger has no new entry and no
\* changed contracts or avg_price_cents.
C2_PutFailureAbortsMutation ==
    [][ (~dry_run /\ ev'.op \in {"open", "add"} /\ ev'.put_failed)
           => Core(positions') = Core(positions) ]_vars

\* C3 (as claimed): in live mode, after any sequence of open_position,
\* add_to_position and close_position calls with failing puts and deletes,
\* ledger and store hold the same tickers with the same contracts and
\* avg_price_cents.
C3_LedgerAgreesWithStore ==
    (~dry_run /\ pc = "tracker") => Core(positions) = Core(store)

\* C4 (as claimed): in live mode every order that is filled at the broker has
\* been recorded in the ledger by the end of the cycle that submitted it.
C4_FilledOrdersRecorded ==
    (~dry_run /\ pc = "idle")
       => \A i \in 1..Len(orders) :
             orders[i].status = "filled" => orders[i].recorded

\* C5 (as claimed): for any ticker at most one order of the bot is pending or
\* resting at the broker.
C5_OneOrderInFlightPerTicker ==
    \A t \in Tickers :
       Cardinality({i \in 1..Len(orders) :
                       orders[i].ticker = t /\ InFlight(orders[i].status)}) <= 1

\* the settlement time of a stored item has passed, or the item has none
PastOrMissing(item, utcnow) == ~item.has_expiry \/ utcnow >= item.expiry_time.t

\* C6 (as claimed): a startup that loads the table deletes every item whose
\* expiry_time is in the past or missing from the store and keeps it out of
\* the ledger.
C6_ExpiredPurgedOnStartup ==
    [][ (pc = "boot" /\ pc' = "ready" /\ ev'.status = "ok")
           => \A t \in DOMAIN store :
                 PastOrMissing(store[t], now)
                    => t \notin DOMAIN store' /\ t \notin DOMAIN positions' ]_vars

\* C7 (as claimed): a position persisted by scan_and_trade is, at a startup
\* before its settlement time, loaded with the same contracts and
\* avg_price_cents and left in the store.
C7_PositionsSurviveRestart ==
    [][ (pc = "boot" /\ pc' = "ready" /\ ev'.status = "ok")
           => \A t \in DOMAIN store :
                 (store[t].has_expiry /\ store[t].expiry_time.tz = "aware"
                    /\ now < store[t].expiry_time.t)
                    => /\ t \in DOMAIN positions'
                       /\ Core(positions')[t] = Core(store)[t]
                       /\ t \in DOMAIN store' ]_vars

\* C8: while the process runs, contracts, avg_price_cents or the set of held
\* tickers change, or the simulated balance changes, only in a step in which
\* execute_trade returned an order id for a filled order (the simulated fill
\* in dry-run, an order whose status at the broker is filled in live mode).
C8_OnlyFilledOrdersMutate ==
    [][ (/\ pc \notin {"boot", "tracker"} /\ pc' # "boot"
         /\ \/ Core(positions') # Core(positions)
            \/ simulated_balance' # simulated_balance)
           => /\ ev'.ret
              /\ ev'.status = "filled"
              /\ ev'.op \in {"open", "add", "close"}
              /\ (~dry_run => /\ ev'.id \in 1..Len(orders')
                              /\ orders'[ev'.id].status = "filled"
                              /\ orders'[ev'.id].ticker = ev'.ticker) ]_vars

C8_Witness ==
    /\ ~dry_run
    /\ ev.ret
    /\ ev.op = "open"
    /\ ev.ticker \in DOMAIN positions
    /\ \E i \in 1..Len(orders) : InFlight(orders[i].status)

\* C9: open_position is only invoked for a ticker that has no position, and
\* the record of a held ticker is never replaced: its entry_edge and
\* expiry_time stay as they were until it is closed.
C9_OpenOnlyWhenAbsent ==
    [][ /\ ev'.op = "open" => ev'.ticker \notin DOMAIN positions
        /\ pc \notin {"boot", "tracker"} /\ pc' # "boot"
           => \A t \in DOMAIN positions \cap DOMAIN positions' :
                 /\ positions'[t].entry_edge = positions[t].entry_edge
                 /\ positions'[t].expiry_time = positions[t].expiry_time
                 /\ positions'[t].contracts >= positions[t].contracts ]_vars

C9_Witness ==
    /\ pc = "scan"
    /\ ev.op = "open"
    /\ Cardinality(DOMAIN positions) = 2

\* C10: after an open followed by any number of add_to_position calls,
\* avg_price_cents * contracts is the sum over the fills of price * quantity
\* and contracts is the sum of the quantities.
C10_AverageIsCostWeighted ==
    \A t \in DOMAIN positions :
       /\ positions[t].avg_price_cents.n * positions[t].contracts
             = fills[t].cost * positions[t].avg_price_cents.d
       /\ positions[t].contracts = fills[t].qty

C10_Witness ==
    /\ pc = "tracker"
    /\ ev.op = "add"
    /\ ev.ticker \in DOMAIN positions
    /\ positions[ev.ticker].contracts = 3
    /\ positions[ev.ticker].avg_price_cents.d = 3


\* C11: for a win probability in [0,1], an ask in 1..99 and a budget,
\* calculate_kelly_contracts returns c with 0 <= c <= MAX_CONTRACTS and
\* c * ask / 100 <= budget; it returns 0 when the ask is outside (0,100) or
\* the Kelly fraction (b*p - q)/b is not positive.
C11_SizerWithinBudgetAndCap ==
    call.fn = "calculate_kelly_contracts"
       => LET a == call.no_price_cents
              p == call.win_prob
              c == call.result
          IN /\ a \in 1..99 => /\ 0 <= c
                                /\ c <= MAX_CONTRACTS
                                /\ 2 * c * a <= call.bankroll2
             /\ (a \notin 1..99 \/ p * (100 - a) <= (1000 - p) * a) => c = 0

C11_Witness ==
    /\ call.fn = "calculate_kelly_contracts"
    /\ call.no_price_cents \in 1..99
    /\ call.result = MAX_CONTRACTS
    /\ 2 * (MAX_CONTRACTS + 1) * call.no_price_cents * KELLY_FRACTION.d
          <= call.bankroll2 * KELLY_FRACTION.n

OwnTable == IF dry_run THEN "BTCHFPositions-DryRun" ELSE "BTCHFPositions"
OtherTable == IF dry_run THEN "BTCHFPositions" ELSE "BTCHFPositions-DryRun"

\* C13: a tracker created with dry_run=True scans, puts and deletes in the
\* dry-run table only, one created with dry_run=False in the live table only:
\* no step changes the other mode's table, the positions a startup loads are
\* items of the own table, and no trade record is put into the other mode's
\* position table.
C13_NamespaceIsolation ==
    [][ /\ tables'[OtherTable] = tables[OtherTable]
        /\ (pc = "boot" /\ ev'.op = "load")
              => \A t \in DOMAIN positions' :
                    /\ t \in DOMAIN tables[OwnTable]
                    /\ positions'[t] = FromItem(tables[OwnTable][t])
        /\ ev'.log # OtherTable ]_vars

C13_Witness ==
    /\ ev.op = "open"
    /\ ev.ticker \in DOMAIN tables[OwnTable]
    /\ ev.log \in {"BTCHFPositions-DryRun", "BTCTradeLog"}
    /\ DOMAIN tables[OtherTable] # {}

\* C14 (as claimed): once a liquidation order for a position has been
\* submitted without a confirmed fill, no later liquidation order is
\* submitted for that position.
C14_NoAutomaticRetry ==
    [][ (ev'.exec = "liquidate" /\ ev'.id # 0)
           => ~fills[ev'.ticker].unconfirmed ]_vars

\* C15: a cycle whose spot price is missing or outside [10000, 500000], whose
\* volatility is missing or has fewer than 10 samples, whose quote set is
\* empty or whose balance is unavailable returns without an order and leaves
\* ledger, bankroll and store as they were; a cycle that goes on has valid
\* inputs.
C15_DataUnavailableSkips ==
    [][ /\ ev'.op = "skip"
              => /\ pc' = "idle"
                 /\ UNCHANGED <<positions, tables, simulated_balance, orders>>
        /\ pc' \in {"scan", "wait", "cancel", "exits"}
              => /\ cyc'.btc_price >= 10000 /\ cyc'.btc_price <= 500000
                 /\ cyc'.samples >= 10
                 /\ cyc'.bankroll >= 0 ]_vars

C15_Witness ==
    /\ ev.op = "skip"
    /\ pc = "idle"
    /\ DOMAIN positions # {}
    /\ Len(orders) > 0

\* C16: a scan_and_trade cycle starts only when the previous one has
\* returned: no order of the bot is being polled or cancelled and no cycle
\* locals are live.
C16_CyclesDoNotOverlap ==
    [][ ev'.op \in {"begin", "skip", "raise"}
           => pc = "idle" /\ cur = NoCur /\ cyc = NoCyc ]_vars

C16_Witness ==
    /\ ev.op = "begin"
    /\ pc = "scan"
    /\ \E i \in 1..Len(orders) : orders[i].status = "canceled"

\* C17 (as claimed): after a shutdown signal has set running to False no
\* further cycle is started.
C17_NoCycleAfterShutdown ==
    [][ signalled => ev'.op \notin {"begin", "skip", "raise"} ]_vars

\* C18 (as claimed): calculate_fee(5, 85) is 6 cents.
C18_FeeExampleSixCents ==
    (call.fn = "calculate_fee" /\ call.contracts = 5 /\ call.price_cents = 85)
       => call.result = 6

\* C18 (amended): ceil(0.07 * 5 * 85 * 0.15) = ceil(4.4625), so
\* calculate_fee(5, 85) is 5 cents.
C18_FeeExampleFiveCents ==
    (call.fn = "calculate_fee" /\ call.contracts = 5 /\ call.price_cents = 85)
       => call.result = 5

C18_Witness ==
    call.fn = "calculate_fee" /\ call.contracts = 5 /\ call.price_cents = 85

\* C19: over asks 1..99 fee_pct is strictly decreasing in the ask, and it is 0
\* outside (0,100); so for a fixed gross edge the net edge is strictly lower
\* at the lower of two asks.
C19_FeePctDecreasing ==
    [][ (call.fn = "calculate_net_edge" /\ call'.fn = "calculate_net_edge")
           => /\ call'.price_cents \notin 1..99 => call'.fee_pct = 0
              /\ (/\ call.price_cents \in 1..99
                  /\ call'.price_cents \in 1..99
                  /\ call.price_cents < call'.price_cents
                  /\ call.gross_edge_pct = call'.gross_edge_pct)
                    => /\ call.fee_pct > call'.fee_pct
                       /\ call.result < call'.result ]_vars

C19_Witness ==
    /\ call.fn = "calculate_net_edge"
    /\ call.price_cents = 99
    /\ call.fee_pct = 7
    /\ call.result = call.gross_edge_pct - 7

\* C20: calculate_model_probability returns exactly 1.0 when the standardized
\* distance is greater than 6 and exactly 0.0 when it is less than -6; for
\* spot 90000, strike 90500, vol_std 0.08 and 15 minutes it returns 1.0.
C20_ProbabilitySaturates ==
    (call.fn = "calculate_model_probability"
        /\ call.vol_std_pct > 0 /\ call.minutes > 0)
       => /\ StdDevsBeyond(call.btc_price, call.strike_price, call.vol_std_pct,
                           call.minutes, 6, TRUE) => call.result = 1000
          /\ StdDevsBeyond(call.btc_price, call.strike_price, call.vol_std_pct,
                           call.minutes, 6, FALSE) => call.result = 0
          /\ (/\ call.btc_price = 90000 /\ call.strike_price = 90500
              /\ call.vol_std_pct = 8 /\ call.minutes = 15)
                => call.result = 1000

C20_Witness ==
    /\ call.fn = "calculate_model_probability"
    /\ call.btc_price = 90000 /\ call.strike_price = 90500
    /\ call.vol_std_pct = 8 /\ call.minutes = 15
    /\ call.result = 1000

\* C21: for spot < strike, vol_std > 0 and minutes_left > 0 the probability
\* does not fall when the strike rises (spot, vol, minutes fixed) and does not
\* rise when minutes_left rises (spot, strike, vol fixed), the step between a
\* value of norm_cdf's polynomial and the saturated 1.0 included.
C21_ProbabilityMonotone ==
    [][ (/\ call.fn = "calculate_model_probability"
         /\ call'.fn = "calculate_model_probability"
         /\ call.vol_std_pct > 0 /\ call.minutes > 0 /\ call'.minutes > 0
         /\ call.btc_price < call.strike_price
         /\ call'.btc_price < call'.strike_price
         /\ call'.btc_price = call.btc_price
         /\ call'.vol_std_pct = call.vol_std_pct)
           => /\ (call'.minutes = call.minutes
                     /\ call.strike_price <= call'.strike_price)
                    => call.result <= call'.result
              /\ (call'.strike_price = call.strike_price
                     /\ call.minutes <= call'.minutes)
                    => call.result >= call'.result ]_vars

\* a strike whose probability is saturated at 15 minutes and not at 60
C21_Witness ==
    /\ call.fn = "calculate_model_probability"
    /\ call.btc_price < call.strike_price
    /\ call.minutes = 60
    /\ call.result > 500 /\ call.result < 1000
    /\ StdDevsBeyond(call.btc_price, call.strike_price, call.vol_std_pct, 15, 6, TRUE)

\* C22: an ADD order for a held ticker is submitted only if the net edge is at
\* least EDGE_INCREASE_THRESHOLD above the position's last_edge; a held ticker
\* the add rule turns away gets no order, its contracts and average price,
\* the store, the balance and the order book stay as they are, and the strike
\* loop goes on.
C22_AddOnlyOnEdgeIncrease ==
    [][ /\ (pc = "scan" /\ ev'.exec = "add")
              => positions'[ev'.ticker].last_edge - positions[ev'.ticker].last_edge
                    >= EDGE_INCREASE_THRESHOLD * 100
        /\ ev'.skip = "add_rule"
              => /\ ev'.exec = "none"
                 /\ pc' = "scan"
                 /\ Core(positions') = Core(positions)
                 /\ UNCHANGED <<tables, simulated_balance, orders>> ]_vars

C22_Witness ==
    /\ pc = "scan"
    /\ ev.skip = "add_rule"
    /\ ev.seen \in DOMAIN positions
    /\ cyc.can_open_new
    /\ ev.net_edge >= MIN_EDGE_PCT * 100

\* C23 (as claimed): with entries permitted, a held position whose net edge is
\* at least MIN_EDGE_PCT and at least EDGE_INCREASE_THRESHOLD above the
\* last_edge the previous cycle left is not turned away by the add rule.
C23_AddReachable ==
    [][ ev'.skip = "add_rule"
           => positions'[ev'.seen].last_edge - positions[ev'.seen].last_edge
                 < EDGE_INCREASE_THRESHOLD * 100 ]_vars

C25_LastEdgeRefreshed ==
    [][ ev'.seen # "none"
           => /\ ev'.seen \in DOMAIN positions'
              /\ positions'[ev'.seen].last_edge = ev'.net_edge ]_vars

\* in the cutoff window the edge of a held position falls below the exit
\* threshold
C25_Witness ==
    /\ pc = "scan"
    /\ ev.seen \in DOMAIN positions
    /\ ~cyc.can_open_new
    /\ positions[ev.seen].last_edge = ev.net_edge
    /\ positions[ev.seen].entry_edge > EXIT_EDGE_PCT * 100
    /\ ev.net_edge <= EXIT_EDGE_PCT * 100

\* C26 (as claimed): a held position whose quote the strike loop passes over
\* (spot at or above the strike, ask not in (0,100)) is re-evaluated all the
\* same: it leaves the strike loop with a last_edge at or below the exit
\* threshold, so that the exit pass liquidates it.
C26_NoStaleEdge ==
    [][ ev'.stale # "none"
           => positions'[ev'.stale].last_edge <= EXIT_EDGE_PCT * 100 ]_vars

\* C27: no OPEN or ADD order is submitted in a cycle with
\* minutes_to_hour <= TRADING_CUTOFF_MINUTES or with a remaining exposure
\* budget, as computed at the start of the cycle, of 0 or less.
C27_NoEntryInCutoffOrOverBudget ==
    [][ (pc = "scan" /\ ev'.exec \in {"open", "add"})
           => /\ cyc.minutes_to_hour > TRADING_CUTOFF_MINUTES
              /\ cyc.remaining_exposure + 2 * cyc.spent > 0 ]_vars

\* the strike loop of a cycle that started over budget, with time left, has
\* ended without an order
C27_Witness ==
    /\ pc = "scan"
    /\ cyc.idx > Len(Markets)
    /\ cyc.minutes_to_hour > TRADING_CUTOFF_MINUTES
    /\ cyc.remaining_exposure <= 0
    /\ cyc.spent = 0
    /\ orders = <<>>
    /\ "T2" \notin DOMAIN positions

\* C28 (as claimed): a cycle that obtained spot, volatility, quotes and balance
\* goes on to the strike loop and the exit pass, whatever the balance.
C28_ExitPassAlwaysRuns ==
    [][ (pc = "idle" /\ ev'.op \in {"begin", "raise"}) => pc' = "scan" ]_vars

\* C29: every OPEN or ADD order is submitted for the quote the strike loop is
\* at, with the strike strictly above the spot, an ask in (0,100), a model
\* probability that is defined, and a net edge, gross edge minus fee_pct, of
\* at least MIN_EDGE_PCT (the edge the order is recorded with).
C29_EntryOnNetEdgeOnly ==
    [][ (pc = "scan" /\ ev'.exec \in {"open", "add"})
           => /\ Markets[cyc.idx].ticker = ev'.ticker
              /\ Markets[cyc.idx].floor_strike > cyc.btc_price
              /\ ev'.ask > 0 /\ ev'.ask < 100
              /\ cyc.vol_15m > 0 /\ cyc.minutes_to_hour > 0
              /\ (10 * ev'.prob - 100 * ev'.ask) - calculate_kalshi_fee_pct(ev'.ask)
                    >= MIN_EDGE_PCT * 100
              /\ ev'.net_edge >= MIN_EDGE_PCT * 100 ]_vars

\* the spot is above the first strike: the order is for the second one
C29_Witness ==
    /\ pc = "scan"
    /\ ev.exec = "open" /\ ev.ret /\ ev.ticker = "T2"
    /\ cyc.btc_price >= Markets[1].floor_strike
    /\ cyc.btc_price < Markets[2].floor_strike
    /\ "T1" \notin DOMAIN positions

\* C30 (as claimed): no OPEN or ADD order is submitted for a quote whose
\* spread, ask - bid with a missing bid counted as 0, exceeds
\* MAX_SLIPPAGE_CENTS.
C30_NoEntryOnWideSpread ==
    [][ (pc = "scan" /\ ev'.exec \in {"open", "add"})
           => ev'.ask - ev'.bid <= MAX_SLIPPAGE_CENTS ]_vars

\* C31: the wait for a resting entry order ends: execute_trade makes at most
\* ORDER_TIMEOUT_SEC // 2 = 15 status polls, whether they answer or raise, each
\* iteration counting once; after the last one (or after a poll that finds the
\* order cancelled or rejected) the only step left is the single cancel
\* attempt, which returns failure, leaves the ledger, the table and the order
\* being waited for behind, and moves on to the next strike whether
\* cancel_order raised or not.
C31_FillWaitTerminates ==
    [][ /\ (pc = "wait" => cur.polls <= 15)
        /\ (pc = "wait" /\ pc' = "wait" /\ cur' # cur
               => cur'.polls = cur.polls + 1 /\ cur'.polls <= 15)
        /\ ( (pc = "cancel" \/ (pc = "wait" /\ cur.polls = 15)) /\ (pc' # pc \/ cur' # cur)
               => /\ pc' = "scan"
                  /\ cur' = NoCur
                  /\ ev'.status = "timeout" /\ ev'.id = cur.id /\ ~ev'.ret
                  /\ positions' = positions /\ tables' = tables
                  /\ cyc' = NextStrike(cyc)
                  /\ orders'[cur.id].status \in {orders[cur.id].status, "canceled"} )
      ]_vars

\* the fifteenth poll is over and the order is still on the book
C31_Witness ==
    /\ pc = "wait"
    /\ cur.polls = 15
    /\ orders[cur.id].status = "resting"

\* C32: in live mode execute_trade returns an order id for an OPEN or ADD order
\* only when create_order answered 'filled' or a poll saw 'filled'; a response
\* other than filled or resting fails at once, without a poll; a resting
\* response starts the wait; a poll that sees anything other than resting,
\* pending or filled ends the wait, which then fails; and whenever
\* execute_trade fails or is still waiting, contracts and avg_price_cents of
\* every position, the table and the remaining exposure stay as they were.
C32_EntrySucceedsOnlyWhenFilled ==
    [][ /\ (~dry_run /\ ev'.exec \in {"open", "add"})
           => /\ ev'.ret => /\ ev'.status = "filled"
                            /\ orders'[ev'.id].status = "filled"
                            /\ orders'[ev'.id].ticker = ev'.ticker
              /\ (pc = "scan" /\ ev'.status \notin {"filled", "resting"})
                    => ~ev'.ret /\ pc' = "scan" /\ cur' = NoCur
              /\ (pc = "scan" /\ ev'.status = "resting")
                    => ~ev'.ret /\ pc' = "wait" /\ cur'.polls = 0
        /\ (~dry_run /\ pc = "wait" /\ pc' = "cancel")
           => orders[cur.id].status \notin {"resting", "pending", "filled"}
        /\ (~dry_run /\ pc = "wait"
               /\ orders[cur.id].status \notin {"resting", "pending", "filled"})
           => ~ev'.ret
        /\ (~dry_run /\ pc = "cancel") => ~ev'.ret /\ pc' \in {"cancel", "scan"}
        /\ (~dry_run /\ ~ev'.ret /\ (ev'.exec \in {"open", "add"} \/ pc \in {"wait", "cancel"}))
           => /\ Core(positions') = Core(positions)
              /\ tables' = tables
              /\ cyc'.remaining_exposure = cyc.remaining_exposure
      ]_vars

\* a wait that ended in failure after the broker had cancelled the order: the
\* ticker is not held and the budget is what the cycle started with
C32_Witness ==
    /\ ~dry_run
    /\ pc = "scan"
    /\ ev.exec = "open"
    /\ ev.status = "timeout"
    /\ orders[ev.id].status = "canceled"
    /\ ev.ticker \notin DOMAIN positions
    /\ cyc.can_open_new
    /\ cyc.spent = 0

\* C33: when calculate_model_probability has no value for a strike (the
\* volatility is not positive, or no minute is left), the strike loop passes
\* over that strike and nothing more: no order is submitted and no position
\* changes (last_edge included), the loop goes on to the next strike, and after
\* the last strike the exit pass of the same cycle starts.
C33_UndefinedProbabilitySkipsStrike ==
    [][ (pc = "scan" /\ (cyc.vol_15m <= 0 \/ cyc.minutes_to_hour <= 0))
           => /\ Len(orders') = Len(orders)
              /\ ev'.exec = "none"
              /\ positions' = positions
              /\ tables' = tables
              /\ simulated_balance' = simulated_balance
              /\ IF cyc.idx <= Len(Markets)
                 THEN pc' = "scan" /\ cyc'.idx \in {cyc.idx, cyc.idx + 1}
                 ELSE pc' \in {"scan", "exits"}
      ]_vars

\* a held strike with an ask was passed over in a cycle whose volatility is
\* zero, and the loop is at the next strike
C33_Witness ==
    /\ pc = "scan"
    /\ cyc.vol_15m = 0
    /\ cyc.idx = 2
    /\ ev.stale = Markets[1].ticker
    /\ Markets[1].floor_strike > cyc.btc_price
    /\ Markets[1].ticker \in DOMAIN positions
    /\ cyc.can_open_new

\* C34: in dry-run, when the put of open_position or add_to_position fails,
\* the call returns normally (the caller goes on where it was), the table is
\* left as it was, and the ledger holds the mutation all the same: the new
\* position, or the added contracts at the cost-weighted average price with
\* last_edge set to the edge of the add.
C34_DryRunPutFailureOnlyWarns ==
    [][ (dry_run /\ ev'.op \in {"open", "add"} /\ ev'.put_failed)
           => LET t == ev'.ticker
              IN /\ pc' = pc
                 /\ tables' = tables
                 /\ t \in DOMAIN positions'
                 /\ \A u \in DOMAIN positions \ {t} :
                       u \in DOMAIN positions' /\ positions'[u] = positions[u]
                 /\ positions'[t].contracts = fills'[t].qty
                 /\ positions'[t].avg_price_cents.n * positions'[t].contracts
                       = fills'[t].cost * positions'[t].avg_price_cents.d
                 /\ IF ev'.op = "open"
                    THEN /\ t \notin DOMAIN positions
                         /\ positions'[t].entry_edge = positions'[t].last_edge
                    ELSE /\ t \in DOMAIN positions
                         /\ positions'[t].contracts > positions[t].contracts
                         /\ fills'[t].cost > fills[t].cost
                         /\ positions'[t].entry_edge = positions[t].entry_edge
      ]_vars

\* the put of an add failed in dry-run, for a position the table does not hold
\* because the put of its open had failed too
C34_Witness ==
    /\ dry_run
    /\ pc = "tracker"
    /\ ev.op = "add"
    /\ ev.put_failed
    /\ ev.ticker \in DOMAIN positions
    /\ ev.ticker \notin DOMAIN store
    /\ positions[ev.ticker].contracts = 3

\* C35: when the load of the persisted positions fails at startup, a live
\* process ends in its constructor: it never reaches run(), so no cycle starts
\* and no order is submitted until the process is started again; a dry-run
\* process goes on to run() with an empty ledger.  In both modes the failed
\* load leaves the table as it was.
C35_LiveLoadFailureStopsStartup ==
    [][ /\ (ev'.op = "load" /\ ev'.status = "error")
           => /\ pc = "boot"
              /\ positions' = EmptyMap
              /\ tables' = tables
              /\ orders' = orders
              /\ pc' = IF dry_run THEN "ready" ELSE "failed"
        /\ pc = "failed"
           => /\ ~dry_run
              /\ pc' \in {"failed", "boot"}
              /\ Len(orders') = Len(orders)
              /\ positions' = EmptyMap
              /\ tables' = tables
        /\ pc' = "scan" => pc \in {"idle", "scan", "wait", "cancel"}
        /\ pc' = "idle" => pc \in {"ready", "idle", "scan", "exits"}
      ]_vars

\* a live process whose load failed while the table held a position
C35_Witness ==
    /\ ~dry_run
    /\ pc = "failed"
    /\ ev.op = "load"
    /\ ev.status = "error"
    /\ DOMAIN store # {}
    /\ positions = EmptyMap

\* the fields of a position that open_position sets and nothing else assigns
EntryFields(pos) ==
    [expiry_time |-> pos.expiry_time, entry_edge |-> pos.entry_edge,
     strike_price |-> pos.strike_price,
     btc_price_at_entry |-> pos.btc_price_at_entry, opened_at |-> pos.opened_at]

\* C36: expiry_time, entry_edge, strike_price, btc_price_at_entry and
\* opened_at of a position are those open_position gave it: a call of
\* add_to_position or update_edge, at whatever time and with whatever edge,
\* leaves all five as they were, and so does every other step during which the
\* position stays in the ledger.
C36_EntryFieldsFixedAtOpen ==
    [][ /\ \A t \in DOMAIN positions \cap DOMAIN positions' :
              EntryFields(positions'[t]) = EntryFields(positions[t])
        /\ ev'.op \in {"add", "update_edge"}
              => DOMAIN positions' = DOMAIN positions
        /\ ev'.op = "open"
              => /\ ev'.ticker \notin DOMAIN positions
                 /\ positions'[ev'.ticker].opened_at = now
                 /\ positions'[ev'.ticker].expiry_time = expiry_time_of(now)
                 /\ positions'[ev'.ticker].entry_edge = positions'[ev'.ticker].last_edge
      ]_vars

\* a position opened in an earlier hour has been added to at another edge
C36_Witness ==
    /\ pc = "tracker"
    /\ ev.op = "add"
    /\ positions[ev.ticker].opened_at < now
    /\ positions[ev.ticker].last_edge # positions[ev.ticker].entry_edge
    /\ positions[ev.ticker].contracts = 3

\* C37: update_edge touches nothing but the last_edge of the named position in
\* memory: the table is not written, every other field of the position and
\* every other position stay as they were, and for a ticker that is not held
\* the ledger is unchanged; the last_edge of an item in the table changes, and
\* an item appears, only in an open or an add of that ticker.
C37_UpdateEdgeInMemoryOnly ==
    [][ /\ ev'.op = "update_edge"
           => /\ tables' = tables
              /\ DOMAIN positions' = DOMAIN positions
              /\ \A t \in DOMAIN positions :
                    positions'[t] = IF t = ev'.ticker
                                    THEN [positions[t] EXCEPT
                                            !.last_edge = positions'[t].last_edge]
                                    ELSE positions[t]
        /\ \A t \in DOMAIN store' :
              (t \notin DOMAIN store \/ store'[t].last_edge # store[t].last_edge)
                 => ev'.op \in {"open", "add"} /\ ev'.ticker = t
      ]_vars

\* update_edge has given a held position a last_edge that its item in the
\* table does not have
C37_Witness ==
    /\ pc = "tracker"
    /\ ev.op = "update_edge"
    /\ ev.ticker \in DOMAIN positions
    /\ ev.ticker \in DOMAIN store
    /\ positions[ev.ticker].last_edge # store[ev.ticker].last_edge
    /\ positions[ev.ticker].last_edge # positions[ev.ticker].entry_edge

\* C38 (as claimed): while the process keeps running, a cycle that runs to its
\* end leaves no position in the ledger whose settlement time has passed: a
\* position of an earlier settlement window has been removed or liquidated by
\* then and no longer counts toward the current exposure.
C38_NoPositionPastSettlement ==
    [][ (pc = "exits" /\ pc' = "idle" /\ cyc.xi > Len(cyc.snapshot))
           => \A t \in DOMAIN positions' : now < positions'[t].expiry_time.t
      ]_vars

====
